---- MODULE Spec2Model ----
(***************************************************************************)
(* aiupdate.py: update a registry of command-line tools in parallel.       *)
(* A run probes every tool's version, runs every tool's update command     *)
(* concurrently beside a polling display loop, probes the versions again,  *)
(* attaches old/new versions to the results and prints a report.           *)
(*                                                                         *)
(* The asyncio event loop runs one coroutine at a time and switches only   *)
(* at an await, so every action below is the code between two awaits.      *)
(*                                                                         *)
(* Text (str) is a sequence of one-character strings; a literal of the     *)
(* source that is never taken apart is kept as one element.  An            *)
(* Optional[str] is <<>> for None and <<s>> for the string s.              *)
(***************************************************************************)
EXTENDS Integers, Sequences, FiniteSets, TLC

\* Number of tools of the registry that the model runs.
NumTools == 2
\* Longest version text given to format_version_change in SpecFormat.
MaxVerLen == 2

VARIABLES
    TOOLS,          \* the registry: sequence of Tool
    pc,             \* position of main / run_updates
    vpc,            \* per tool: position of its get_version coroutine in the current probe phase
    vproc,          \* per tool: the probe's subprocess
    vhow,           \* per tool: the path on which get_version returned
    vout,           \* per tool: what communicate() returned to the probe
    vret,           \* per tool: the value get_version returned
    vbegun,         \* per tool: number of get_version calls entered so far
    vcount,         \* per tool: number of get_version calls returned so far
    old_versions,   \* dict name -> Optional[str], bound at line 184
    new_versions,   \* dict name -> Optional[str], bound at line 204
    results,        \* the progress map: dict name -> None | reference to an UpdateResult
    heap,           \* the UpdateResult objects, by reference
    upc,            \* per tool: position of its update_tool coroutine
    uproc,          \* per tool: the update subprocess
    uout,           \* per tool: what communicate() returned to the updater
    uret,           \* per tool: the value update_tool returned
    ustarted,       \* per tool: number of update subprocesses spawned
    uexits,         \* the tools whose update subprocess has ended, in the order they ended
    writes,         \* per tool name: number of assignments results[name] = ...
    completed,      \* the list gather() returned at line 199
    dpc,            \* position of the update_display task
    live,           \* the table last handed to Live
    fullRenders,    \* number of tables handed to Live by update_display with no entry absent
    returned,       \* the list run_updates returned
    console,        \* what main printed after the run: final table, summary, panels
    exitcode,       \* the process exit code, once main has returned
    fold, fnew, fout, fpc   \* format_version_change applied on its own (SpecFormat)

vars == <<TOOLS, pc, vpc, vproc, vhow, vout, vret, vbegun, vcount, old_versions,
          new_versions, results, heap, upc, uproc, uout, uret, ustarted, uexits, writes, completed,
          dpc, live, fullRenders, returned, console, exitcode, fold, fnew, fout, fpc>>

runVars == <<TOOLS, pc, vpc, vproc, vhow, vout, vret, vbegun, vcount, old_versions,
             new_versions, results, heap, upc, uproc, uout, uret, ustarted, uexits, writes, completed,
             dpc, live, fullRenders, returned, console, exitcode>>

fmtVars == <<fold, fnew, fout, fpc>>

-----------------------------------------------------------------------------
(* Optional values, text and bytes *)

None == <<>>

Some(s) == <<s>>

\* s.strip() on text: leading and trailing whitespace removed
IsSpace(c) == c \in {" ", "\n"}

RECURSIVE LStrip(_)
LStrip(s) ==
    IF s # <<>> /\ IsSpace(Head(s)) THEN LStrip(Tail(s)) ELSE s

RECURSIVE RStrip(_)
RStrip(s) ==
    IF s # <<>> /\ IsSpace(s[Len(s)]) THEN RStrip(SubSeq(s, 1, Len(s) - 1)) ELSE s

Strip(s) == RStrip(LStrip(s))

\* bytes: the text they decode to, or not valid UTF-8
Bytes(s) == [valid |-> TRUE, text |-> s]

BadBytes == [valid |-> FALSE, text |-> <<>>]

\* b.decode(): raises UnicodeDecodeError on bytes that are not valid
DecodeRaises(b) == ~b.valid

Decode(b) == b.text

-----------------------------------------------------------------------------
(* re.search(r"(\d+\.\d+\.\d+)", output): leftmost match, each \d+ greedy *)

IsDigit(c) == c \in {"0", "1", "2", "3", "4", "5", "6", "7", "8", "9"}

\* last index of the run of digits of s starting at i (i - 1 when s[i] is no digit)
RECURSIVE DigitsEnd(_, _)
DigitsEnd(s, i) ==
    IF i <= Len(s) /\ IsDigit(s[i]) THEN DigitsEnd(s, i + 1) ELSE i - 1

\* end index of the match of the pattern at position i of s, 0 when there is none.
\* A digit run is never followed by a digit, so backtracking into a shorter run
\* cannot make a later "\." match: the greedy attempt decides.
MatchAt(s, i) ==
    LET a == DigitsEnd(s, i)
        b == DigitsEnd(s, a + 2)
        c == DigitsEnd(s, b + 2)
    IN  IF /\ a >= i
           /\ a + 1 <= Len(s) /\ s[a + 1] = "."
           /\ b >= a + 2
           /\ b + 1 <= Len(s) /\ s[b + 1] = "."
           /\ c >= b + 2
        THEN c ELSE 0

\* scan the start positions from the left; match.group(1) of the first match, or None
RECURSIVE SearchFrom(_, _)
SearchFrom(s, i) ==
    IF i > Len(s) THEN None
    ELSE IF MatchAt(s, i) # 0 THEN Some(SubSeq(s, i, MatchAt(s, i)))
    ELSE SearchFrom(s, i + 1)

re_search(s) == SearchFrom(s, 1)

-----------------------------------------------------------------------------
(* The registry and the records *)

Tools == 1..NumTools

\* the names of TOOLS, in registry order
TOOL_NAMES == <<"codex", "gemini", "crush", "claude">>

\* Tool: its name and whether version_command is set (the other fields are
\* arguments of the subprocess, whose behaviour the actions choose)
Tool(i, vc) == [name |-> TOOL_NAMES[i], version_command |-> vc]

Names == {TOOL_NAMES[i] : i \in Tools}

\* dict.get(key): None for a missing key
DictGet(d, k) == IF k \in DOMAIN d THEN d[k] ELSE None

\* a reference to the UpdateResult object that update_tool(TOOLS[i]) constructs
Ref(i) == <<i>>

Deref(r) == heap[r[1]]

\* faulty variant: success set without looking at the exit code
UpdateResultBadSuccess(i, code, out, err) ==
    [tool |-> i, success |-> TRUE, stdout |-> out, stderr |-> err,
     returncode |-> code, old_version |-> None, new_version |-> None]

\* UpdateResult(...) on the normal path of update_tool, lines 128-134
\* (returncode or 0 is returncode: communicate() has set it)
UpdateResultOk(i, code, out, err) ==
    [tool |-> i, success |-> (code = 0), stdout |-> out, stderr |-> err,
     returncode |-> code, old_version |-> None, new_version |-> None]

\* faulty variant: the except branch records exit code 0
UpdateResultBadCode(i, msg) ==
    [tool |-> i, success |-> FALSE, stdout |-> <<>>, stderr |-> msg,
     returncode |-> 0, old_version |-> None, new_version |-> None]

\* UpdateResult(...) in the except branch of update_tool; msg is str(e)
UpdateResultExc(i, msg) ==
    [tool |-> i, success |-> FALSE, stdout |-> <<>>, stderr |-> msg,
     returncode |-> 1, old_version |-> None, new_version |-> None]

\* str(e) of the errors the subprocess calls raise
SpawnError == <<"[Errno 2] No such file or directory">>

DecodeError == <<"'utf-8' codec can't decode byte">>

-----------------------------------------------------------------------------
(* format_version_change and make_status_table.  A rich markup tag is one
   element of the text. *)

\* faulty variant: no case for equal versions
format_version_change_arrow(old, new) ==
    IF old = None /\ new = None THEN <<"[dim]", "unknown", "[/dim]">>
    ELSE IF old = None THEN <<"[dim]", "?", "[/dim]", " -> ", "[green]">> \o new[1] \o <<"[/green]">>
    ELSE IF new = None THEN old[1] \o <<" -> ", "[dim]", "?", "[/dim]">>
    ELSE old[1] \o <<" -> ", "[green]">> \o new[1] \o <<"[/green]">>

\* lines 105-115
format_version_change(old, new) ==
    IF old = None /\ new = None THEN <<"[dim]", "unknown", "[/dim]">>
    ELSE IF old = None THEN <<"[dim]", "?", "[/dim]", " -> ", "[green]">> \o new[1] \o <<"[/green]">>
    ELSE IF new = None THEN old[1] \o <<" -> ", "[dim]", "?", "[/dim]">>
    ELSE IF old = new THEN <<"[dim]">> \o old[1] \o <<"[/dim]">>
    ELSE old[1] \o <<" -> ", "[green]">> \o new[1] \o <<"[/green]">>

\* Python truthiness of an Optional[str]: None and "" are false
Truthy(v) == v # None /\ v[1] # <<>>

\* faulty variant: a present result's row shows the old version only
StatusRowOldOnly(res, show_versions, i) ==
    LET name == TOOLS[i].name
        result == DictGet(res, name)
        status == IF result = None THEN "[yellow]updating...[/yellow]"
                  ELSE IF Deref(result).success THEN "[green]done[/green]"
                  ELSE "[red]failed[/red]"
    IN  IF ~show_versions THEN <<name, status>>
        ELSE IF result = None THEN <<name, status, <<>> >>
        ELSE <<name, status,
               <<"[dim]">>
               \o (IF Truthy(Deref(result).old_version) THEN Deref(result).old_version[1] ELSE <<"?">>)
               \o <<"[/dim]">> >>

\* one row of the table, for the tool at index i of TOOLS
StatusRow(res, show_versions, i) ==
    LET name == TOOLS[i].name
        result == DictGet(res, name)
    IN  IF result = None
        THEN IF show_versions THEN <<name, "[yellow]updating...[/yellow]", <<>> >>
             ELSE <<name, "[yellow]updating...[/yellow]">>
        ELSE IF Deref(result).success
        THEN IF show_versions
             THEN <<name, "[green]done[/green]",
                    format_version_change(Deref(result).old_version, Deref(result).new_version)>>
             ELSE <<name, "[green]done[/green]">>
        ELSE IF show_versions
             THEN <<name, "[red]failed[/red]",
                    <<"[dim]">>
                    \o (IF Truthy(Deref(result).old_version) THEN Deref(result).old_version[1] ELSE <<"?">>)
                    \o <<"[/dim]">> >>
             ELSE <<name, "[red]failed[/red]">>

make_status_table(res, show_versions) ==
    [i \in 1..Len(TOOLS) |-> StatusRow(res, show_versions, i)]

-----------------------------------------------------------------------------
(* get_version *)

\* faulty variant: the exit code of the version command is not looked at
get_version_ignores_returncode(o) ==
    IF DecodeRaises(o.out) THEN None
    ELSE re_search(Strip(Decode(o.out)))

\* what get_version returns once communicate() has returned o = (returncode, stdout);
\* a decode error is caught by the outer except
get_version_result(o) ==
    IF o.code # 0 THEN None
    ELSE IF DecodeRaises(o.out) THEN None
    ELSE re_search(Strip(Decode(o.out)))

\* the (returncode, stdout) pairs a version command ends with
ProbeOutcomes ==
    { [code |-> 0, out |-> Bytes(<<"v", "1", ".", "2", ".", "3", ".", "4">>)],
      [code |-> 0, out |-> Bytes(<<"1", ".", "3", ".", "0", "\n">>)],
      [code |-> 0, out |-> Bytes(<<"1", "2", ".", "3">>)],
      [code |-> 3, out |-> Bytes(<<"1", ".", "2", ".", "3">>)],
      [code |-> 0, out |-> BadBytes] }

\* the (returncode, stdout, stderr) triples an update command ends with
UpdateOutcomes ==
    { [code |-> 0, out |-> Bytes(<<"ok">>), err |-> Bytes(<<>>)],
      [code |-> 3, out |-> Bytes(<<>>), err |-> Bytes(<<"boom">>)],
      [code |-> 0, out |-> BadBytes, err |-> Bytes(<<>>)] }

-----------------------------------------------------------------------------
(* Initial state: the module is loaded, main() has not been called *)

InitRun ==
    /\ TOOLS \in {[i \in Tools |-> Tool(i, vc[i])] : vc \in [Tools -> BOOLEAN]}
    /\ pc = "main"
    /\ vpc = [i \in Tools |-> "idle"]
    /\ vproc = [i \in Tools |-> "none"]
    /\ vhow = [i \in Tools |-> "none"]
    /\ vout = [i \in Tools |-> None]
    /\ vret = [i \in Tools |-> None]
    /\ vbegun = [i \in Tools |-> 0]
    /\ vcount = [i \in Tools |-> 0]
    /\ old_versions = <<>>
    /\ new_versions = <<>>
    /\ results = <<>>
    /\ heap = <<>>
    /\ upc = [i \in Tools |-> "idle"]
    /\ uproc = [i \in Tools |-> "none"]
    /\ uout = [i \in Tools |-> None]
    /\ uret = [i \in Tools |-> None]
    /\ ustarted = [i \in Tools |-> 0]
    /\ uexits = <<>>
    /\ writes = [n \in Names |-> 0]
    /\ completed = <<>>
    /\ dpc = "idle"
    /\ live = <<>>
    /\ fullRenders = 0
    /\ returned = <<>>
    /\ console = <<>>
    /\ exitcode = None

Init ==
    /\ InitRun
    /\ fold = None
    /\ fnew = None
    /\ fout = <<>>
    /\ fpc = "idle"

probeVars == <<vpc, vproc, vhow, vout, vret, vbegun, vcount>>

updateVars == <<results, heap, upc, uproc, uout, uret, ustarted, uexits, writes>>

displayVars == <<dpc, live, fullRenders>>

reportVars == <<returned, console, exitcode>>

-----------------------------------------------------------------------------
(* main and get_all_versions *)

\* main() prints the banner and asyncio.run enters run_updates, which awaits
\* get_all_versions: gather() schedules one get_one(tool) per tool
MainStart ==
    /\ pc = "main"
    /\ pc' = "phase1"
    /\ vpc' = [i \in Tools |-> "start"]
    /\ UNCHANGED <<TOOLS, vproc, vhow, vout, vret, vbegun, vcount, old_versions, new_versions,
                   completed, updateVars, displayVars, reportVars, fmtVars>>

InProbePhase == pc \in {"phase1", "phase3"}

\* get_version up to its first await: no version command, or the spawn, which
\* yields a running subprocess or raises
ProbeStart(t) ==
    /\ InProbePhase
    /\ vpc[t] = "start"
    /\ vbegun' = [vbegun EXCEPT ![t] = @ + 1]
    /\ IF ~TOOLS[t].version_command
       THEN /\ vpc' = [vpc EXCEPT ![t] = "done"]
            /\ vhow' = [vhow EXCEPT ![t] = "no_command"]
            /\ vret' = [vret EXCEPT ![t] = None]
            /\ vcount' = [vcount EXCEPT ![t] = @ + 1]
            /\ UNCHANGED vproc
       ELSE \/ /\ vproc' = [vproc EXCEPT ![t] = "running"]
               /\ vpc' = [vpc EXCEPT ![t] = "wait"]
               /\ UNCHANGED <<vhow, vret, vcount>>
            \/ /\ vpc' = [vpc EXCEPT ![t] = "done"]
               /\ vhow' = [vhow EXCEPT ![t] = "spawn_error"]
               /\ vret' = [vret EXCEPT ![t] = None]
               /\ vcount' = [vcount EXCEPT ![t] = @ + 1]
               /\ UNCHANGED vproc
    /\ UNCHANGED <<TOOLS, pc, vout, old_versions, new_versions, completed,
                   updateVars, displayVars, reportVars, fmtVars>>

\* the version command's process ends by itself
ProbeProcExit(t) ==
    /\ InProbePhase
    /\ vproc[t] = "running"
    /\ vproc' = [vproc EXCEPT ![t] = "exited"]
    /\ UNCHANGED <<TOOLS, pc, vpc, vhow, vout, vret, vbegun, vcount, old_versions, new_versions,
                   completed, updateVars, displayVars, reportVars, fmtVars>>

\* wait_for(proc.communicate()) returns before the timeout: lines 82-91
ProbeReturn(t) ==
    /\ InProbePhase
    /\ vpc[t] = "wait"
    /\ vproc[t] = "exited"
    /\ \E o \in ProbeOutcomes :
        /\ vout' = [vout EXCEPT ![t] = Some(o)]
        /\ vret' = [vret EXCEPT ![t] = get_version_result(o)]
    /\ vhow' = [vhow EXCEPT ![t] = "returned"]
    /\ vpc' = [vpc EXCEPT ![t] = "done"]
    /\ vcount' = [vcount EXCEPT ![t] = @ + 1]
    /\ UNCHANGED <<TOOLS, pc, vproc, vbegun, old_versions, new_versions, completed,
                   updateVars, displayVars, reportVars, fmtVars>>

\* faulty variant: the timeout branch returns without proc.kill()
KillSkipped(p) == p

\* proc.kill(): SIGKILL to a process that still runs; nothing left to kill otherwise
Kill(p) == IF p = "running" THEN "killed" ELSE p

\* faulty variant: communicate() awaited without wait_for
TimeoutNever(t) == FALSE

\* lines 75-77: the wait on communicate() is bounded by wait_for(..., timeout)
TimeoutArmed(t) == vpc[t] = "wait"

\* wait_for raises TimeoutError while communicate() is pending (the process runs,
\* or has ended with its pipes still open): lines 78-80
ProbeTimeout(t) ==
    /\ InProbePhase
    /\ TimeoutArmed(t)
    /\ vproc' = [vproc EXCEPT ![t] = Kill(@)]
    /\ vhow' = [vhow EXCEPT ![t] = "timeout"]
    /\ vret' = [vret EXCEPT ![t] = None]
    /\ vpc' = [vpc EXCEPT ![t] = "done"]
    /\ vcount' = [vcount EXCEPT ![t] = @ + 1]
    /\ UNCHANGED <<TOOLS, pc, vout, vbegun, old_versions, new_versions, completed,
                   updateVars, displayVars, reportVars, fmtVars>>

\* dict(results) of get_all_versions: name -> version of the tool of that name
VersionDict == [n \in Names |-> vret[CHOOSE i \in Tools : TOOLS[i].name = n]]

AllProbesDone == \A i \in Tools : vpc[i] = "done"

-----------------------------------------------------------------------------
(* run_updates, phase 2: update_tool for every tool beside update_display *)

\* the frames of the finished get_version calls are gone
ProbesCleared ==
    /\ vpc' = [i \in Tools |-> "idle"]
    /\ vproc' = [i \in Tools |-> "none"]
    /\ vhow' = [i \in Tools |-> "none"]
    /\ vout' = [i \in Tools |-> None]
    /\ vret' = [i \in Tools |-> None]

\* faulty variant: the wait returns with the first finished probe
Phase1JoinedEarly == \E i \in Tools : vpc[i] = "done"

\* gather() over the probes returns when every one of them has returned
Phase1Joined == AllProbesDone

\* lines 184-199: old_versions is bound, the progress map is created all-None,
\* Live shows the first table, the update coroutines and the display task are
\* created and gather() schedules the updates
Phase1End ==
    /\ pc = "phase1"
    /\ Phase1Joined
    /\ old_versions' = VersionDict
    /\ results' = [n \in Names |-> None]
    /\ live' = make_status_table([n \in Names |-> None], FALSE)
    /\ upc' = [i \in Tools |-> "start"]
    /\ dpc' = "ready"
    /\ pc' = "phase2"
    /\ ProbesCleared
    /\ UNCHANGED <<TOOLS, vbegun, vcount, new_versions, heap, uproc, uout, uret, ustarted, uexits,
                   writes, completed, fullRenders, reportVars, fmtVars>>

\* faulty variant: every updater writes under the first tool's name
StoreUnderFirstName(t, r) ==
    /\ heap' = [i \in DOMAIN heap \cup {t} |-> IF i = t THEN r ELSE heap[i]]
    /\ results' = [n \in DOMAIN results \cup {TOOLS[1].name} |->
                      IF n = TOOLS[1].name THEN Ref(t) ELSE results[n]]
    /\ writes' = [writes EXCEPT ![TOOLS[1].name] = IF @ < NumTools THEN @ + 1 ELSE @]
    /\ uret' = [uret EXCEPT ![t] = Ref(t)]
    /\ upc' = [upc EXCEPT ![t] = "done"]

\* lines 143-144: results[tool.name] = result; return result
Store(t, r) ==
    /\ heap' = [i \in DOMAIN heap \cup {t} |-> IF i = t THEN r ELSE heap[i]]
    /\ results' = [n \in DOMAIN results \cup {TOOLS[t].name} |->
                      IF n = TOOLS[t].name THEN Ref(t) ELSE results[n]]
    /\ writes' = [writes EXCEPT ![TOOLS[t].name] = @ + 1]
    /\ uret' = [uret EXCEPT ![t] = Ref(t)]
    /\ upc' = [upc EXCEPT ![t] = "done"]

\* faulty variant: no try around the spawn, the error leaves update_tool and gather
SpawnFailedRaises(t) ==
    /\ pc' = "aborted"
    /\ upc' = [upc EXCEPT ![t] = "raised"]
    /\ UNCHANGED <<results, heap, writes, uret, uproc, uout, ustarted>>

\* faulty variant: the except branch returns its result without writing the entry
SpawnFailedUnrecorded(t) ==
    /\ heap' = [i \in DOMAIN heap \cup {t} |->
                   IF i = t THEN UpdateResultExc(t, SpawnError) ELSE heap[i]]
    /\ uret' = [uret EXCEPT ![t] = Ref(t)]
    /\ upc' = [upc EXCEPT ![t] = "done"]
    /\ UNCHANGED <<pc, results, writes, uproc, uout, ustarted>>

\* faulty variant: the except branch writes the entry and tries the command once more
SpawnFailedRetried(t) ==
    /\ heap' = [i \in DOMAIN heap \cup {t} |->
                   IF i = t THEN UpdateResultExc(t, SpawnError) ELSE heap[i]]
    /\ results' = [results EXCEPT ![TOOLS[t].name] = Ref(t)]
    /\ writes' = [writes EXCEPT ![TOOLS[t].name] = IF @ < 2 THEN @ + 1 ELSE @]
    /\ upc' = [upc EXCEPT ![t] = IF writes[TOOLS[t].name] < 2 THEN "start" ELSE "done"]
    /\ uret' = [uret EXCEPT ![t] = Ref(t)]
    /\ UNCHANGED <<pc, uproc, uout, ustarted>>

\* the except branch of update_tool after a failed spawn, lines 135-144
SpawnFailed(t) ==
    /\ Store(t, UpdateResultExc(t, SpawnError))
    /\ UNCHANGED <<pc, uproc, uout, ustarted>>

\* faulty variant: the updates are awaited one after the other
ScheduledInTurn(t) == upc[t] = "start" /\ \A j \in 1..(t - 1) : upc[j] = "done"

\* lines 190 and 199: gather() schedules every update coroutine at once
Scheduled(t) == upc[t] = "start"

\* update_tool up to its first await: the spawn yields a running subprocess or raises
UpdateStart(t) ==
    /\ pc = "phase2"
    /\ Scheduled(t)
    /\ \/ /\ uproc' = [uproc EXCEPT ![t] = "running"]
          /\ ustarted' = [ustarted EXCEPT ![t] = @ + 1]
          /\ upc' = [upc EXCEPT ![t] = "wait"]
          /\ UNCHANGED <<pc, results, heap, uout, uret, writes>>
       \/ SpawnFailed(t)
    /\ UNCHANGED <<TOOLS, probeVars, old_versions, new_versions, uexits, completed,
                   displayVars, reportVars, fmtVars>>

\* the update command's process ends by itself
UpdateProcExit(t) ==
    /\ pc = "phase2"
    /\ uproc[t] = "running"
    /\ uproc' = [uproc EXCEPT ![t] = "exited"]
    /\ uexits' = Append(uexits, t)
    /\ UNCHANGED <<TOOLS, pc, probeVars, old_versions, new_versions, results, heap, upc, uout,
                   uret, ustarted, writes, completed, displayVars, reportVars, fmtVars>>

\* lines 128-142: the result built from what communicate() returned
update_result(t, o) ==
    IF DecodeRaises(o.out) \/ DecodeRaises(o.err)
    THEN UpdateResultExc(t, DecodeError)
    ELSE UpdateResultOk(t, o.code, Decode(o.out), Decode(o.err))

\* proc.communicate() returns: lines 127-144
UpdateReturn(t) ==
    /\ pc = "phase2"
    /\ upc[t] = "wait"
    /\ uproc[t] = "exited"
    /\ \E o \in UpdateOutcomes :
        /\ uout' = [uout EXCEPT ![t] = Some(o)]
        /\ Store(t, update_result(t, o))
    /\ UNCHANGED <<TOOLS, pc, probeVars, old_versions, new_versions, uproc, ustarted, uexits,
                   completed, displayVars, reportVars, fmtVars>>

\* faulty variant: all() in place of any()
AllAbsent(res) == \A n \in DOMAIN res : res[n] = None

\* any(r is None for r in results.values()), line 193
AnyAbsent(res) == \E n \in DOMAIN res : res[n] = None

\* a table with no "updating..." row
NoUpdatingRow(table) ==
    \A k \in 1..Len(table) : table[k][2] # "[yellow]updating...[/yellow]"

\* update_display from the loop test to its next await or to its end: lines 193-196
DisplayStep ==
    /\ pc = "phase2"
    /\ dpc = "ready"
    /\ live' = make_status_table(results, FALSE)
    /\ fullRenders' = fullRenders + (IF NoUpdatingRow(live') THEN 1 ELSE 0)
    /\ dpc' = IF AnyAbsent(results) THEN "sleeping" ELSE "done"
    /\ UNCHANGED <<TOOLS, pc, probeVars, old_versions, new_versions, completed,
                   updateVars, reportVars, fmtVars>>

\* asyncio.sleep(0.25) returns
DisplayWake ==
    /\ pc = "phase2"
    /\ dpc = "sleeping"
    /\ dpc' = "ready"
    /\ UNCHANGED <<TOOLS, pc, probeVars, old_versions, new_versions, completed,
                   updateVars, live, fullRenders, reportVars, fmtVars>>

AllUpdatesDone == \A i \in Tools : upc[i] = "done"

\* faulty variant: the display task is not awaited
Phase2JoinedWithoutDisplay == AllUpdatesDone

\* lines 199-200: gather() over the updates has returned and display_task is joined
Phase2Joined == AllUpdatesDone /\ dpc = "done"

\* faulty variant: the results in reverse registry order
GatherReversed == [i \in Tools |-> uret[NumTools + 1 - i]]

\* line 199: gather() returns what the coroutines returned, in the order they were given
GatherResults == [i \in Tools |-> uret[i]]

\* lines 199-204: gather() returns the results in registry order, the display
\* task is joined, Live is left, and the post-update probes are scheduled; the
\* order in which the update subprocesses ended is history of the update phase only
Phase2End ==
    /\ pc = "phase2"
    /\ Phase2Joined
    /\ completed' = GatherResults
    /\ pc' = "phase3"
    /\ vpc' = [i \in Tools |-> "start"]
    /\ uexits' = <<>>
    /\ UNCHANGED <<TOOLS, vproc, vhow, vout, vret, vbegun, vcount, old_versions, new_versions,
                   results, heap, upc, uproc, uout, uret, ustarted, writes,
                   displayVars, reportVars, fmtVars>>

-----------------------------------------------------------------------------
(* run_updates, phase 3, and the report of main *)

\* faulty variant: the two versions are attached the wrong way round
AttachSwapped(r, newv) ==
    [r EXCEPT !.old_version = DictGet(newv, TOOLS[r.tool].name),
              !.new_version = DictGet(old_versions, TOOLS[r.tool].name)]

\* lines 207-209 on one UpdateResult object
Attach(r, newv) ==
    [r EXCEPT !.old_version = DictGet(old_versions, TOOLS[r.tool].name),
              !.new_version = DictGet(newv, TOOLS[r.tool].name)]

\* lines 204-211: new_versions is bound, the versions are attached to every
\* object of completed, and run_updates returns completed
Phase3End ==
    /\ pc = "phase3"
    /\ AllProbesDone
    /\ new_versions' = VersionDict
    /\ heap' = [i \in DOMAIN heap |->
                   IF \E k \in 1..Len(completed) : completed[k] = Ref(i)
                   THEN Attach(heap[i], VersionDict) ELSE heap[i]]
    /\ returned' = completed
    /\ pc' = "returned"
    /\ ProbesCleared
    /\ UNCHANGED <<TOOLS, vbegun, vcount, old_versions, results, upc, uproc, uout, uret,
                   ustarted, uexits, writes, completed, displayVars, console, exitcode, fmtVars>>

\* {r.tool.name: r for r in results}, line 247
FinalResults(rs) ==
    [n \in {TOOLS[Deref(rs[k]).tool].name : k \in 1..Len(rs)} |->
        rs[CHOOSE k \in 1..Len(rs) :
              /\ TOOLS[Deref(rs[k]).tool].name = n
              /\ \A j \in (k + 1)..Len(rs) : TOOLS[Deref(rs[j]).tool].name # n]]

IsFailure(r) == ~Deref(r).success

\* the text of one failure panel, lines 222-232
PanelBody(r) ==
    LET out1 == IF Strip(r.stdout) # <<>> THEN r.stdout ELSE <<>>
        out2 == IF Strip(r.stderr) # <<>>
                THEN (IF out1 # <<>> THEN out1 \o <<"\n">> ELSE out1) \o r.stderr
                ELSE out1
    IN  IF out2 # <<>> THEN out2 ELSE <<"Exit code: ", r.returncode>>

\* show_failures: one panel per failed result, in order
Panels(rs) ==
    LET failures == SelectSeq(rs, IsFailure)
    IN  [k \in 1..Len(failures) |->
            [title |-> <<"[red]", TOOLS[Deref(failures[k]).tool].name, " failed", "[/red]">>,
             body |-> PanelBody(Deref(failures[k]))]]

\* faulty variant: a panel for every result
PanelsForAll(rs) ==
    [k \in 1..Len(rs) |->
        [title |-> <<"[red]", TOOLS[Deref(rs[k]).tool].name, " failed", "[/red]">>,
         body |-> PanelBody(Deref(rs[k]))]]

\* show_failures, lines 214-236
show_failures(rs) == Panels(rs)

SuccessCount(rs) == Cardinality({k \in 1..Len(rs) : Deref(rs[k]).success})

\* str(n) inside an f-string, for a count
RECURSIVE IntText(_)
IntText(n) ==
    IF n < 10 THEN <<<<"0", "1", "2", "3", "4", "5", "6", "7", "8", "9">>[n + 1]>>
    ELSE IntText(n \div 10) \o IntText(n % 10)

\* the summary line, lines 255-260
Summary(success_count, fail_count) ==
    IF fail_count = 0
    THEN <<"[green]", "All ">> \o IntText(success_count)
         \o <<" tools updated successfully.", "[/green]">>
    ELSE <<"[yellow]">> \o IntText(success_count) \o <<" succeeded, ">>
         \o IntText(fail_count) \o <<" failed.", "[/yellow]">>

\* faulty variant: a failed tool makes the process exit with code 1
ExitCodeByFailures(fail_count) == IF fail_count = 0 THEN 0 ELSE 1

\* main returns normally whatever the counts are: the interpreter exits with code 0
ExitCode(fail_count) == 0

\* lines 243-261: the final table, the summary line and the failure panels;
\* main returns and the interpreter exits with code 0
MainReport ==
    /\ pc = "returned"
    /\ console' =
         [table |-> make_status_table(FinalResults(returned), TRUE),
          success_count |-> SuccessCount(returned),
          fail_count |-> Len(returned) - SuccessCount(returned),
          summary |-> Summary(SuccessCount(returned), Len(returned) - SuccessCount(returned)),
          panels |-> IF Len(returned) - SuccessCount(returned) = 0 THEN <<>>
                     ELSE show_failures(returned)]
    /\ exitcode' = Some(ExitCode(Len(returned) - SuccessCount(returned)))
    /\ pc' = "exited"
    /\ UNCHANGED <<TOOLS, probeVars, old_versions, new_versions, completed, updateVars,
                   displayVars, returned, fmtVars>>

-----------------------------------------------------------------------------
(* The run *)

Next ==
    \/ MainStart
    \/ \E t \in Tools : ProbeStart(t)
    \/ \E t \in Tools : ProbeProcExit(t)
    \/ \E t \in Tools : ProbeReturn(t)
    \/ \E t \in Tools : ProbeTimeout(t)
    \/ Phase1End
    \/ \E t \in Tools : UpdateStart(t)
    \/ \E t \in Tools : UpdateProcExit(t)
    \/ \E t \in Tools : UpdateReturn(t)
    \/ DisplayStep
    \/ DisplayWake
    \/ Phase2End
    \/ Phase3End
    \/ MainReport

Spec == Init /\ [][Next]_vars

-----------------------------------------------------------------------------
(* The run under the scheduling of the event loop *)

\* The event loop resumes every coroutine whose awaited future is done, fires
\* every timer that is due, and main goes on when asyncio.run returns. A wait
\* on communicate() ends by the result or by the timeout of wait_for. Nothing
\* makes a subprocess end: no fairness for ProbeProcExit and UpdateProcExit.
Fairness ==
    /\ WF_vars(MainStart)
    /\ \A t \in Tools : WF_vars(ProbeStart(t))
    /\ \A t \in Tools : WF_vars(ProbeReturn(t) \/ ProbeTimeout(t))
    /\ WF_vars(Phase1End)
    /\ \A t \in Tools : WF_vars(UpdateStart(t))
    /\ \A t \in Tools : WF_vars(UpdateReturn(t))
    /\ WF_vars(DisplayStep)
    /\ WF_vars(DisplayWake)
    /\ WF_vars(Phase2End)
    /\ WF_vars(Phase3End)
    /\ WF_vars(MainReport)

SpecLive == Init /\ [][Next]_vars /\ Fairness

-----------------------------------------------------------------------------
(* The run under a user interrupt *)

\* A KeyboardInterrupt reaches asyncio.run (line 243) while run_updates is
\* running: every pending task is cancelled. CancelledError is raised at the
\* await of each get_version (lines 74-79) and update_tool (line 127); it is
\* not an Exception, so neither except clause (lines 90, 135) handles it, and
\* there is no finally: the coroutine is left without a kill or a wait on its
\* subprocess. What becomes of a subprocess still running is up to the runtime
\* and the signal's delivery: it has been ended as well (the tools of ended),
\* or it keeps running.
Interrupt ==
    /\ pc \in {"phase1", "phase2", "phase3"}
    /\ pc' = "interrupted"
    /\ vpc' = [i \in Tools |-> IF vpc[i] \in {"start", "wait"} THEN "cancelled" ELSE vpc[i]]
    /\ upc' = [i \in Tools |-> IF upc[i] \in {"start", "wait"} THEN "cancelled" ELSE upc[i]]
    /\ dpc' = IF dpc \in {"ready", "sleeping"} THEN "cancelled" ELSE dpc
    /\ \E ended \in SUBSET {i \in Tools : vproc[i] = "running" \/ uproc[i] = "running"} :
          /\ vproc' = [i \in Tools |->
                          IF vproc[i] = "running" /\ i \in ended THEN "killed" ELSE vproc[i]]
          /\ uproc' = [i \in Tools |->
                          IF uproc[i] = "running" /\ i \in ended THEN "killed" ELSE uproc[i]]
    /\ UNCHANGED <<TOOLS, vhow, vout, vret, vbegun, vcount, old_versions, new_versions,
                   results, heap, uout, uret, ustarted, uexits, writes, completed,
                   live, fullRenders, reportVars, fmtVars>>

NextInterrupt ==
    \/ Next
    \/ Interrupt

SpecInterrupt == Init /\ [][NextInterrupt]_vars

-----------------------------------------------------------------------------
(* format_version_change on its own: every pair of optional version texts *)

VersionChars == {"1", "2", "."}

RECURSIVE TextsUpTo(_)
TextsUpTo(n) ==
    IF n = 0 THEN {<<>>}
    ELSE TextsUpTo(n - 1) \cup {Append(s, c) : s \in TextsUpTo(n - 1), c \in VersionChars}

OptionalVersions == {None} \cup {Some(s) : s \in TextsUpTo(MaxVerLen)}

InitFormat ==
    /\ InitRun
    /\ fold \in OptionalVersions
    /\ fnew \in OptionalVersions
    /\ fout = <<>>
    /\ fpc = "idle"

FormatCall ==
    /\ fpc = "idle"
    /\ fout' = format_version_change(fold, fnew)
    /\ fpc' = "done"
    /\ UNCHANGED <<runVars, fold, fnew>>

NextFormat == FormatCall

SpecFormat == InitFormat /\ [][NextFormat]_vars

-----------------------------------------------------------------------------
(* Properties *)

Present(res) == DOMAIN res = Names /\ \A n \in Names : res[n] # None

UpdatePhaseOver == pc \in {"phase3", "returned", "exited"}

\* the update of tool i took the except branch: the spawn raised, or a decode raised
SpawnRaised(i) == upc[i] = "done" /\ uproc[i] = "none"

DecodeRaised(i) ==
    /\ upc[i] = "done"
    /\ uout[i] # None
    /\ (DecodeRaises(uout[i][1].out) \/ DecodeRaises(uout[i][1].err))

\* C1: when the gather over the update_tool tasks can return, and from the end
\* of the update phase on, the progress map has an entry for exactly the tool
\* names of the registry and no entry is None, however each update ended.
C1_ProgressMapFull ==
    ((pc = "phase2" /\ AllUpdatesDone) \/ UpdatePhaseOver) => Present(results)

C1_Witness ==
    /\ pc = "phase3"
    /\ \E i, j \in Tools : SpawnRaised(i) /\ heap[j].success

\* C2: an entry of the progress map that is present stays the same object with
\* the same success, output and exit code; every key is assigned at most once
\* and every tool's update command is spawned at most once.
C2_WrittenOnce ==
    /\ [](\A i \in Tools : ustarted[i] <= 1 /\ writes[TOOLS[i].name] <= 1)
    /\ [][\A n \in DOMAIN results :
            results[n] # None =>
                /\ n \in DOMAIN results'
                /\ results'[n] = results[n]
                /\ results[n][1] \in DOMAIN heap'
                /\ heap'[results[n][1]].tool = heap[results[n][1]].tool
                /\ heap'[results[n][1]].success = heap[results[n][1]].success
                /\ heap'[results[n][1]].stdout = heap[results[n][1]].stdout
                /\ heap'[results[n][1]].stderr = heap[results[n][1]].stderr
                /\ heap'[results[n][1]].returncode = heap[results[n][1]].returncode]_vars

C2_Witness ==
    /\ pc = "exited"
    /\ \A i \in Tools : writes[TOOLS[i].name] = 1
    /\ \E i \in Tools : ustarted[i] = 1
    /\ \E i \in Tools : ustarted[i] = 0

\* C3: an update is begun only after every tool's pre-update probe returned, and
\* a post-update probe is begun only after every update finished and wrote its
\* entry.
C3_PhasesOrdered ==
    /\ \A i \in Tools : upc[i] \in {"wait", "done"} => \A j \in Tools : vcount[j] >= 1
    /\ \A i \in Tools : vbegun[i] >= 2 =>
          \A j \in Tools : upc[j] = "done" /\ DictGet(results, TOOLS[j].name) # None

\* a post-update probe has begun; the last tool's pre-update probe was not the last to return
C3_Witness ==
    /\ pc = "phase3"
    /\ vbegun[NumTools] = 2
    /\ vbegun[1] = 1
    /\ vcount[1] = 1

\* C4: no failed update aborts the run: while one tool's entry is a failure
\* every other update can still take its next step, the run is never aborted,
\* and when run_updates has returned the post-update probes have run and the
\* returned list has a result of every tool.
C4_FailureContained ==
    /\ pc # "aborted"
    /\ \A i \in Tools : upc[i] \in {"idle", "start", "wait", "done"}
    /\ \A i, j \in Tools :
          (pc = "phase2" /\ upc[i] = "done" /\ ~heap[i].success /\ upc[j] # "done")
              => ENABLED (UpdateStart(j) \/ UpdateProcExit(j) \/ UpdateReturn(j))
    /\ pc \in {"returned", "exited"} =>
          /\ Len(returned) = NumTools
          /\ \A i \in Tools : returned[i] # None /\ Deref(returned[i]).tool = i
          /\ \A i \in Tools : vcount[i] = 2

C4_Witness ==
    /\ pc = "exited"
    /\ \E i, j \in Tools :
          /\ SpawnRaised(i)
          /\ ~heap[j].success /\ heap[j].returncode = 3

\* C5: update_display ends only when no entry is None; before it ends every
\* table it handed to Live had an "updating" row, and it hands over exactly one
\* table without one, its last.
C5_DisplayLoop ==
    /\ dpc = "done" => ~AnyAbsent(results) /\ NoUpdatingRow(live) /\ fullRenders = 1
    /\ dpc \in {"ready", "sleeping"} => fullRenders = 0 /\ ~NoUpdatingRow(live)
    /\ dpc = "sleeping" /\ pc = "phase2" => ENABLED DisplayWake

C5_Witness ==
    /\ pc = "phase2"
    /\ dpc = "done"
    /\ fullRenders = 1
    /\ \E i \in Tools : ~heap[i].success

\* C6: every recorded UpdateResult has success exactly when its returncode is 0;
\* a result built from a process whose output decoded records that process's
\* exit code and its error text.
C6_SuccessIffZero ==
    \A i \in DOMAIN heap :
        /\ heap[i].success <=> (heap[i].returncode = 0)
        /\ (uout[i] # None /\ ~DecodeRaised(i)) =>
              /\ heap[i].returncode = uout[i][1].code
              /\ heap[i].stdout = uout[i][1].out.text
              /\ heap[i].stderr = uout[i][1].err.text

C6_Witness ==
    \E i \in DOMAIN heap :
        /\ uout[i] # None
        /\ uout[i][1].code = 3
        /\ ~heap[i].success
        /\ heap[i].returncode = 3
        /\ heap[i].stderr = <<"boom">>

\* C7: an update whose spawn or decode raised still wrote its entry and
\* returned a result with success false, empty stdout, the error message as
\* stderr and returncode 1.
C7_ErrorRecorded ==
    \A i \in Tools :
        (SpawnRaised(i) \/ DecodeRaised(i)) =>
            /\ DictGet(results, TOOLS[i].name) = Ref(i)
            /\ uret[i] = Ref(i)
            /\ heap[i].success = FALSE
            /\ heap[i].stdout = <<>>
            /\ heap[i].stderr = (IF SpawnRaised(i) THEN SpawnError ELSE DecodeError)
            /\ heap[i].returncode = 1

C7_Witness ==
    \E i, j \in Tools : SpawnRaised(i) /\ DecodeRaised(j)

\* the text s[i..j] has the shape digits "." digits "." digits
IsVersionAt(s, i, j) ==
    \E p \in (i + 1)..(j - 3) : \E q \in (p + 2)..(j - 1) :
        /\ s[p] = "." /\ s[q] = "."
        /\ \A k \in (i..j) \ {p, q} : IsDigit(s[k])

HasVersion(s) == \E i \in 1..Len(s) : \E j \in (i + 4)..Len(s) : IsVersionAt(s, i, j)

\* v is the leftmost occurrence of that shape in s, as long as it can be
IsFirstVersion(s, v) ==
    \E i \in 1..(Len(s) - Len(v) + 1) :
        /\ v = SubSeq(s, i, i + Len(v) - 1)
        /\ IsVersionAt(s, i, i + Len(v) - 1)
        /\ \A i2 \in 1..(i - 1) : \A j2 \in (i2 + 4)..Len(s) : ~IsVersionAt(s, i2, j2)
        /\ \A j2 \in (i + Len(v))..Len(s) : ~IsVersionAt(s, i, j2)

\* the probe of tool i ended in time with exit code 0 and decodable output
ProbeRanClean(i) ==
    /\ TOOLS[i].version_command
    /\ vhow[i] = "returned"
    /\ vout[i][1].code = 0
    /\ vout[i][1].out.valid

\* C8: a finished probe returned a version exactly when the tool has a version
\* command, the process ended in time with exit code 0 and its output holds a
\* version, and then it returned the first one; otherwise it returned None.
\* No probe ever raises, and a returned probe's value is not changed by the
\* other probes of the phase.
C8_ProbeResult ==
    /\ [](/\ pc # "aborted"
          /\ \A i \in Tools :
                /\ vpc[i] \in {"idle", "start", "wait", "done"}
                /\ vpc[i] = "done" =>
                      /\ vret[i] # None =>
                            /\ ProbeRanClean(i)
                            /\ IsFirstVersion(vout[i][1].out.text, vret[i][1])
                      /\ vret[i] = None =>
                            ~ProbeRanClean(i) \/ ~HasVersion(vout[i][1].out.text))
    /\ [][\A i \in Tools :
            (vpc[i] = "done" /\ vpc'[i] = "done") => vret'[i] = vret[i]]_vars

C8_Witness ==
    \E i, j \in Tools :
        /\ vret[i] = Some(<<"1", ".", "2", ".", "3">>)
        /\ Len(vout[i][1].out.text) > 5
        /\ vpc[j] = "done" /\ vhow[j] = "returned" /\ vout[j][1].code = 3 /\ vret[j] = None

\* C9: a probe that returned because of the timeout returned None and its
\* subprocess is not running.
C9_TimeoutKills ==
    \A i \in Tools :
        vhow[i] = "timeout" => vpc[i] = "done" /\ vret[i] = None /\ vproc[i] # "running"

C9_Witness ==
    \E i \in Tools : vhow[i] = "timeout" /\ vproc[i] = "killed"

IsMarkup(c) == c \in {"[dim]", "[/dim]", "[green]", "[/green]"}

NotMarkup(c) == ~IsMarkup(c)

\* the text left when the markup tags are taken out
Plain(text) == SelectSeq(text, NotMarkup)

\* the five renderings as the specification words them
StatedRendering(old, new) ==
    IF old = None /\ new = None THEN <<"unknown">>
    ELSE IF old = None THEN <<"?", " -> ">> \o new[1]
    ELSE IF new = None THEN old[1] \o <<" -> ", "?">>
    ELSE IF old = new THEN old[1]
    ELSE old[1] \o <<" -> ">> \o new[1]

\* C10 as stated: format_version_change returns exactly "unknown", "? -> {new}",
\* "{old} -> ?", "{old}" or "{old} -> {new}".
C10_AsStated ==
    fpc = "done" => fout = StatedRendering(fold, fnew)

\* C10, amended: the text format_version_change returns is the stated rendering
\* once its rich markup tags are taken out; the returned string itself carries
\* [dim] around "unknown", "?" and an unchanged version, and [green] around a
\* new version.
C10_PlainRendering ==
    fpc = "done" =>
        /\ Plain(fout) = StatedRendering(fold, fnew)
        /\ fout # Plain(fout)
        /\ (fold # None /\ fnew # None /\ fold = fnew) => fout = <<"[dim]">> \o fold[1] \o <<"[/dim]">>

C10_Witness ==
    /\ fpc = "done"
    /\ fold # None /\ fnew # None /\ fold # fnew
    /\ Len(fold[1]) = MaxVerLen

\* the registry positions of the tools whose returned result is a failure
FailedTools == {i \in Tools : ~heap[i].success}

\* C11: in the final report the two counts add up to the number of registry
\* tools, the failed count is the number of results with success false, there
\* is exactly one panel per failed tool, titled with that tool's name, in
\* registry order, and none for a succeeded tool; one success and one failure
\* give "1 succeeded, 1 failed" and exactly one panel
C11_FinalReport ==
    pc = "exited" =>
        /\ console.success_count + console.fail_count = NumTools
        /\ console.fail_count = Cardinality(FailedTools)
        /\ Len(console.panels) = Cardinality(FailedTools)
        /\ \A i \in FailedTools :
               \E k \in 1..Len(console.panels) :
                   /\ console.panels[k].title = <<"[red]", TOOL_NAMES[i], " failed", "[/red]">>
                   /\ Cardinality({j \in FailedTools : j < i}) = k - 1
        /\ (console.success_count = 1 /\ console.fail_count = 1) =>
               /\ console.summary
                      = <<"[yellow]", "1", " succeeded, ", "1", " failed.", "[/yellow]">>
               /\ Len(console.panels) = 1
        /\ console.fail_count = 0 =>
               console.summary = <<"[green]", "All ">> \o IntText(NumTools)
                                 \o <<" tools updated successfully.", "[/green]">>

C11_Witness ==
    /\ pc = "exited"
    /\ console.success_count = 1
    /\ console.fail_count = 1
    /\ Len(console.panels) = 1
    /\ \E i \in Tools : heap[i].success /\ i \notin FailedTools

\* b's update subprocess ended before a's did
ExitedBefore(b, a) ==
    \E k, l \in 1..Len(uexits) : k < l /\ uexits[k] = b /\ uexits[l] = a

\* C12 as stated: whenever the entry of a tool a becomes present, the entry of
\* every tool b whose update subprocess ended before a's is already present
C12_AsStated ==
    [][\A a, b \in Tools :
          (/\ pc = "phase2"
           /\ results[TOOLS[a].name] = None
           /\ results'[TOOLS[a].name] # None
           /\ ExitedBefore(b, a)')
          => results[TOOLS[b].name] # None]_vars

\* C12: no updater waits for another tool's updater: during the update phase an
\* updater that has not spawned yet can spawn, and one whose subprocess has
\* ended can write its entry, whatever the others are doing; an updater that is
\* done while another tool's subprocess is still running has its entry present
\* while the other entry is absent and the update phase is not complete
C12_Independent ==
    \A a, b \in Tools :
        /\ (pc = "phase2" /\ upc[b] = "start") => ENABLED UpdateStart(b)
        /\ (pc = "phase2" /\ upc[b] = "wait" /\ uproc[b] = "exited") => ENABLED UpdateReturn(b)
        /\ (upc[b] = "done" /\ uproc[a] = "running") =>
               /\ results[TOOLS[b].name] # None
               /\ results[TOOLS[a].name] = None
               /\ pc = "phase2"
               /\ completed = <<>>

C12_Witness ==
    \E a, b \in Tools :
        /\ a < b
        /\ uproc[a] = "running"
        /\ upc[b] = "done"
        /\ uproc[b] = "exited"
        /\ results[TOOLS[b].name] # None
        /\ results[TOOLS[a].name] = None

\* C13: the entry point has run the pre-update probes, the updates and the
\* post-update probes when it prints the final table, the summary line and the
\* failure panels, and the exit code, once set, is 0 whatever tools failed
C13_ExitsZero ==
    /\ exitcode # None => exitcode = Some(0) /\ pc = "exited"
    /\ pc = "exited" =>
           /\ exitcode = Some(0)
           /\ \A i \in Tools : vcount[i] = 2 /\ upc[i] = "done"
           /\ DOMAIN old_versions = Names /\ DOMAIN new_versions = Names
           /\ Len(console.table) = NumTools
           /\ console.summary # <<>>

C13_Witness ==
    /\ pc = "exited"
    /\ exitcode = Some(0)
    /\ \A i \in Tools : ~heap[i].success
    /\ Len(console.panels) = NumTools

\* C14: the display task has terminated, having handed one table with no entry
\* absent to Live, before any post-update probe is entered and before the final
\* table and summary are printed
C14_DisplayJoined ==
    ((\E i \in Tools : vbegun[i] = 2) \/ pc \in {"phase3", "returned", "exited"}
      \/ console # <<>>)
        => /\ dpc = "done"
           /\ fullRenders = 1
           /\ NoUpdatingRow(live)

C14_Witness ==
    /\ pc = "phase3"
    /\ dpc = "done"
    /\ fullRenders = 1
    /\ \E i \in Tools : vbegun[i] = 2 /\ vpc[i] = "wait"
    /\ \E i \in Tools : vbegun[i] = 1

\* both versions of a result are known
BothKnown(r) == r.old_version # None /\ r.new_version # None

C17_VersionsAttached ==
    /\ [](pc \in {"phase2", "phase3"} =>
             \A i \in DOMAIN heap : heap[i].old_version = None /\ heap[i].new_version = None)
    /\ [](pc \in {"returned", "exited"} =>
             \A i \in Tools :
                 /\ Deref(returned[i]).old_version = old_versions[TOOLS[i].name]
                 /\ Deref(returned[i]).new_version = new_versions[TOOLS[i].name])
    /\ [][/\ (pc = "phase1" /\ pc' = "phase2") =>
                 \A i \in Tools : old_versions'[TOOLS[i].name] = vret[i]
          /\ (pc = "phase3" /\ pc' = "returned") =>
                 \A i \in Tools :
                     /\ heap'[returned'[i][1]].new_version = vret[i]
                     /\ heap'[returned'[i][1]].old_version = old_versions[TOOLS[i].name]
                     /\ old_versions' = old_versions]_vars

C17_Witness ==
    /\ pc = "returned"
    /\ \E i \in Tools :
          /\ Deref(returned[i]).old_version = Some(<<"1", ".", "2", ".", "3">>)
          /\ Deref(returned[i]).new_version = Some(<<"1", ".", "3", ".", "0">>)
    /\ \E i \in Tools :
          /\ Deref(returned[i]).old_version = None
          /\ Deref(returned[i]).new_version # None

\* C19: an entry of the progress map only ever holds the result of the tool it
\* is named after; a step of the updater of a tool leaves the entry and the
\* write count of every other name, and every other result object, unchanged;
\* a render by the display task and the final report leave the map and the
\* result objects unchanged
C19_Frame ==
    /\ [](\A t \in Tools :
             TOOLS[t].name \in DOMAIN results =>
                 results[TOOLS[t].name] \in {None, Ref(t)})
    /\ [][/\ \A t \in Tools :
                (pc = "phase2" /\ pc' = "phase2" /\ upc'[t] # upc[t]) =>
                    /\ DOMAIN results' = DOMAIN results
                    /\ \A n \in Names \ {TOOLS[t].name} :
                           results'[n] = results[n] /\ writes'[n] = writes[n]
                    /\ \A i \in DOMAIN heap \ {t} : heap'[i] = heap[i]
          /\ (pc = "phase2" /\ dpc = "ready" /\ dpc' # "ready") =>
                 results' = results /\ heap' = heap /\ writes' = writes
          /\ (pc = "returned" /\ pc' = "exited") =>
                 results' = results /\ heap' = heap /\ writes' = writes]_vars

C19_Witness ==
    /\ pc = "phase2"
    /\ dpc = "sleeping"
    /\ \E a, b \in Tools :
          /\ a < b
          /\ results[TOOLS[b].name] = Ref(b)
          /\ results[TOOLS[a].name] = None
          /\ live[b][2] # "[yellow]updating...[/yellow]"
          /\ live[a][2] = "[yellow]updating...[/yellow]"

\* the number of rows of a table with the given status text
RowsWith(table, status) == Cardinality({k \in 1..Len(table) : table[k][2] = status})

\* C20: the list run_updates returns holds one result per registry tool, in
\* registry order; its element for a tool is the very object written to the
\* progress map under that tool's name; the final table and the summary counts
\* agree with the last table the display task showed
C20_ReturnedIsMap ==
    /\ pc \in {"phase3", "returned", "exited"} =>
           /\ Len(completed) = NumTools
           /\ \A i \in Tools :
                  /\ completed[i] = results[TOOLS[i].name]
                  /\ Deref(completed[i]).tool = i
    /\ pc \in {"returned", "exited"} => returned = completed
    /\ pc = "exited" =>
           /\ \A i \in Tools :
                  /\ console.table[i][1] = live[i][1]
                  /\ console.table[i][2] = live[i][2]
           /\ console.success_count = RowsWith(live, "[green]done[/green]")
           /\ console.fail_count = RowsWith(live, "[red]failed[/red]")

C20_Witness ==
    /\ pc = "exited"
    /\ ~Deref(returned[1]).success
    /\ Deref(returned[NumTools]).success
    /\ live[1][2] = "[red]failed[/red]"
    /\ live[NumTools][2] = "[green]done[/green]"
    /\ returned[1] = results[TOOLS[1].name]

\* C16: a get_version or update_tool coroutine that is over, by a return or by
\* a cancellation, has left no subprocess of its own running
C16_Released ==
    \A i \in Tools :
        /\ vpc[i] \in {"done", "cancelled"} => vproc[i] # "running"
        /\ upc[i] \in {"done", "cancelled"} => uproc[i] # "running"

\* every update subprocess that runs ends at some time
UpdatesExit == \A t \in Tools : [](uproc[t] = "running" => <>(uproc[t] # "running"))

\* C18: each probe phase terminates, whether or not the version commands end;
\* the update phase terminates if every update subprocess ends, and is not
\* over, and cannot end, while an update subprocess is still running
C18_Termination ==
    /\ (pc = "phase1") ~> (pc = "phase2")
    /\ (pc = "phase3") ~> (pc = "returned")
    /\ UpdatesExit => ((pc = "phase2") ~> (pc = "phase3"))
    /\ []((\E t \in Tools : uproc[t] = "running") => (pc = "phase2" /\ ~ENABLED Phase2End))

C18_Witness ==
    /\ pc = "phase3"
    /\ \A t \in Tools : vhow[t] = "timeout" /\ vproc[t] = "killed" /\ vpc[t] = "done"
    /\ \A t \in Tools : uproc[t] = "exited"

====
